---- MODULE Spec2Model ----
(***************************************************************************)
(* Model of src/agents/csv_strands_agent.py: the CSVStrandsAgent class     *)
(* (construction, initialize, the six prompt-building methods) and main(): *)
(* configuration from the environment, startup, the example list_jobs call *)
(* and the interactive loop with its command dispatch.                     *)
(*                                                                         *)
(* Text is modelled as TLA+ strings; strip(), lower(), startswith() and    *)
(* slicing are computed character by character.  The remote MCP server and *)
(* the language model are the environment: discovery and every agent.run   *)
(* either return or raise, chosen nondeterministically.                    *)
(***************************************************************************)
EXTENDS Integers, Sequences, FiniteSets, TLC

VARIABLES
    env,        \* the process environment: variable name -> value or Unset
    pc,         \* position of main(): main, initialize, example, example_run,
                \* ready, turn, done (api: the class used directly, SpecOps)
    mcp_url,    \* CSVStrandsAgent.mcp_url
    api_key,    \* CSVStrandsAgent.api_key
    model_id,   \* CSVStrandsAgent.model_id
    mcp_client, \* CSVStrandsAgent.mcp_client: None or the connection's url and header
    agent,      \* CSVStrandsAgent.agent: None or the Agent handle
    tools,      \* the tool list discovery returned
    line,       \* the last line input() returned, untrimmed
    user_input, \* main's user_input: the trimmed line
    prompt,     \* the last instruction handed to agent.run
    route,      \* the branch of the loop body the last line took
    requests,   \* number of agent.run calls made
    turns,      \* non-empty, non-exit lines read by the loop
    reads,      \* number of input() calls made
    failed,     \* number of agent.run calls that raised
    console,    \* kinds of the lines printed since the last input() call, in order
    outcome,    \* how the last operation ended
    exitCode    \* -1 while running, then the process exit status

vars == <<env, pc, mcp_url, api_key, model_id, mcp_client, agent, tools, line,
          user_input, prompt, route, requests, turns, reads, failed, console,
          outcome, exitCode>>

\* Python's None, for a field that holds an object
None == [none |-> TRUE]
\* a text not assigned yet, or an optional text argument left out
NoText == "<none>"
\* an environment variable that is not set
Unset == "<unset>"

----------------------------------------------------------------------------
(* Bounds *)

\* input() calls made by one session
MaxReads == 3
\* tools the server may advertise
MaxTools == 1
\* method calls made by a direct user of the class (SpecOps)
MaxCalls == 3

----------------------------------------------------------------------------
(* Python string operations *)

UpperLetters == "ABCDEFGHIJKLMNOPQRSTUVWXYZ"
LowerLetters == "abcdefghijklmnopqrstuvwxyz"

CharAt(s, i) == SubSeq(s, i, i)

\* s[n:]
SliceFrom(s, n) == SubSeq(s, n + 1, Len(s))

\* the characters str.strip() removes that a console line can hold
IsSpace(c) == c \in {" ", "\t"}

RECURSIVE LStrip(_)
LStrip(s) ==
    IF s = "" THEN ""
    ELSE IF IsSpace(CharAt(s, 1)) THEN LStrip(SliceFrom(s, 1))
    ELSE s

RECURSIVE RStrip(_)
RStrip(s) ==
    IF s = "" THEN ""
    ELSE IF IsSpace(CharAt(s, Len(s))) THEN RStrip(SubSeq(s, 1, Len(s) - 1))
    ELSE s

\* a slip: only the leading whitespace is removed
StripLeadingOnly(s) == LStrip(s)

\* a slip: the line is used as read
StripNothing(s) == s

\* str.strip()
Strip(s) == RStrip(LStrip(s))

UpperToLower ==
    [c \in {CharAt(UpperLetters, i) : i \in 1..Len(UpperLetters)} |->
        CharAt(LowerLetters,
               CHOOSE i \in 1..Len(UpperLetters) : CharAt(UpperLetters, i) = c)]

LowerChar(c) == IF c \in DOMAIN UpperToLower THEN UpperToLower[c] ELSE c

RECURSIVE Lower(_)
\* str.lower()
Lower(s) == IF s = "" THEN "" ELSE LowerChar(CharAt(s, 1)) \o Lower(SliceFrom(s, 1))

\* str.startswith(p)
StartsWith(s, p) == Len(s) >= Len(p) /\ SubSeq(s, 1, Len(p)) = p

\* os.getenv(name, default)
Getenv(e, name, default) == IF e[name] = Unset THEN default ELSE e[name]

----------------------------------------------------------------------------
(* CSVStrandsAgent: the methods, as what a call does on a handle a *)

\* what a method call does: "run" hands text to agent.run, "raise" raises
\* text, "return" returns text without calling the agent
Run(p) == [kind |-> "run", text |-> p]
Raise(e) == [kind |-> "raise", text |-> e]
Return(t) == [kind |-> "return", text |-> t]

NotInitializedError == "Agent not initialized. Call initialize() first."

SystemPrompt == "You are an autonomous CSV Processing Agent powered by Strands."

\* the default of query_table's limit, as formatted into the prompt
DefaultLimit == "100"

\* the default of __init__'s model_id
DefaultModelId == "gpt-4"

ListJobsPrompt == "List all active CSV processing jobs and their current status."

StatusPrompt(job_id) ==
    "Check the status of CSV processing job " \o job_id \o " and provide details."

QueryPrompt(table_name, limit) ==
    "Query the " \o table_name \o " table and show me the first " \o limit
        \o " rows with statistics."

AnalyzePrompt(table_name) ==
    "Analyze the " \o table_name \o " table and provide:\n"
        \o "        1. Basic statistics (row count, column count)\n"
        \o "        2. Data type breakdown\n"
        \o "        3. Sample data (first 5 rows)\n"
        \o "        4. Any notable patterns or insights\n"
        \o "        5. Recommendations for data usage"

CleanupPrompt(job_id) == "Clean up and remove cached data for job " \o job_id \o "."

ProcessPrompt(file_path, table_name) ==
    "Process the CSV file at " \o file_path
        \o (IF table_name # NoText /\ table_name # ""
            THEN " and import it to a table called " \o table_name ELSE "")
        \o ". Provide details about the import including job ID, row count, and status."

\* exists: whether os.path.exists(file_path)
process_csv(a, file_path, table_name, exists) ==
    IF a = None THEN Raise(NotInitializedError)
    ELSE IF ~exists THEN Return("File not found: " \o file_path)
    ELSE Run(ProcessPrompt(file_path, table_name))

query_table(a, table_name) ==
    IF a = None THEN Raise(NotInitializedError)
    ELSE Run(QueryPrompt(table_name, DefaultLimit))

get_job_status(a, job_id) ==
    IF a = None THEN Raise(NotInitializedError)
    ELSE Run(StatusPrompt(job_id))

\* a slip: the guard on the handle is left out
list_jobs_unguarded(a) == Run(ListJobsPrompt)

list_jobs(a) ==
    IF a = None THEN Raise(NotInitializedError)
    ELSE Run(ListJobsPrompt)

analyze_data(a, table_name) ==
    IF a = None THEN Raise(NotInitializedError)
    ELSE Run(AnalyzePrompt(table_name))

cleanup_job(a, job_id) ==
    IF a = None THEN Raise(NotInitializedError)
    ELSE Run(CleanupPrompt(job_id))

----------------------------------------------------------------------------
(* main(): the loop body's dispatch of one trimmed line *)

\* a slip: the comparison is case sensitive
IsExitCaseSensitive(ui) == ui = "exit"

IsExit(ui) == Lower(ui) = "exit"

IsList(ui) == Lower(ui) = "list"

\* a slip: the argument is cut from the case-folded line
StatusArgFolded(ui) == Strip(SliceFrom(Lower(ui), 7))

StatusArg(ui) == Strip(SliceFrom(ui, 7))

QueryArg(ui) == Strip(SliceFrom(ui, 6))

AnalyzeArg(ui) == Strip(SliceFrom(ui, 8))

\* the free-form branch: the line itself goes to agent.agent.run
Passthrough(a, ui) ==
    IF a = None THEN [kind |-> "not_initialized", text |-> "Agent not initialized"]
    ELSE Run(ui)

\* o, reached through the branch named via
Via(via, o) == [kind |-> o.kind, text |-> o.text, via |-> via]

\* the chain of tests of the loop body, low being user_input.lower()
Branch(a, ui, low) ==
    IF ui = "" THEN [kind |-> "skip", text |-> "", via |-> "empty"]
    ELSE IF IsExit(ui) THEN [kind |-> "exit", text |-> "", via |-> "exit"]
    ELSE IF IsList(ui) THEN Via("list", list_jobs(a))
    ELSE IF StartsWith(low, "status ")
        THEN Via("status", get_job_status(a, StatusArg(ui)))
    ELSE IF StartsWith(low, "query ")
        THEN Via("query", query_table(a, QueryArg(ui)))
    ELSE IF StartsWith(low, "analyze ")
        THEN Via("analyze", analyze_data(a, AnalyzeArg(ui)))
    ELSE Via("passthrough", Passthrough(a, ui))

\* what the loop body does with user_input, the trimmed line
Dispatch(a, ui) == Branch(a, ui, Lower(ui))

----------------------------------------------------------------------------
(* The environment: configuration, discovery results, console input *)

\* MODEL_ID stands for the variable that would carry the model identifier:
\* main reads MCP_SERVER_URL and API_KEY and no other variable
EnvNames == {"MCP_SERVER_URL", "API_KEY", "MODEL_ID"}

\* a value each variable may be set to
EnvSetting ==
    [n \in EnvNames |->
        CASE n = "MCP_SERVER_URL" -> "https://csv.example.net/sse"
          [] n = "API_KEY" -> "secret-key"
          [] n = "MODEL_ID" -> "claude-sonnet"]

\* the environments tried: nothing set, everything set, and two mixtures
Envs ==
    {[n \in EnvNames |-> IF n \in set THEN EnvSetting[n] ELSE Unset] :
        set \in {{}, {"MCP_SERVER_URL"}, {"API_KEY", "MODEL_ID"}, EnvNames}}

DefaultUrl == "http://localhost:3000/sse"
DefaultKey == "change-me-in-production"

ToolList(n) == [i \in 1..n |-> [name |-> "tool", description |-> "a tool"]]

\* what list_tools_sync may do: raise, return None, or return a list
DiscoveryResults ==
    {[kind |-> "error"], [kind |-> "none"]}
        \cup {[kind |-> "list", tools |-> ToolList(n)] : n \in 0..MaxTools}

Prefixes == {"status", "STATUS", "query", "qUeRy", "analyze", "Analyze"}
Commands == {"list", "LIST", "List", "exit", "EXIT", "eXit"}
Args == {"Job-42", "query t"}
FreeForm == {"show me the sales table", "statusjob-42", "listing", "exit now",
             "status\tjob-42"}

\* line bodies, with gap between a prefix and its argument
Bodies(gap) ==
    {""} \cup Commands \cup Prefixes \cup FreeForm
        \cup {p \o gap : p \in Prefixes}
        \cup {p \o gap \o a : p \in Prefixes, a \in Args}

\* the lines input() may return: bare, and with whitespace around and within
Lines == Bodies(" ") \cup {" " \o b \o " \t" : b \in Bodies("  ")}

----------------------------------------------------------------------------
(* main() *)

Init ==
    /\ env \in Envs
    /\ pc = "main"
    /\ mcp_url = NoText /\ api_key = NoText /\ model_id = NoText
    /\ mcp_client = None /\ agent = None /\ tools = <<>>
    /\ line = NoText /\ user_input = NoText /\ prompt = NoText /\ route = "none"
    /\ requests = 0 /\ turns = 0 /\ reads = 0 /\ failed = 0
    /\ console = <<>> /\ outcome = "none" /\ exitCode = -1

\* main reads two variables; the agent is constructed without model_id,
\* which so takes __init__'s default
LoadConfig ==
    /\ pc = "main"
    /\ mcp_url' = Getenv(env, "MCP_SERVER_URL", DefaultUrl)
    /\ api_key' = Getenv(env, "API_KEY", DefaultKey)
    /\ model_id' = DefaultModelId
    /\ console' = console \o <<"banner">>
    /\ pc' = "initialize"
    /\ UNCHANGED <<env, mcp_client, agent, tools, line, user_input, prompt, route,
                   requests, turns, reads, outcome, exitCode, failed>>

\* the outer except Exception of main: two lines, then sys.exit(1)
StartupFailed(printed) ==
    /\ console' = console \o printed \o <<"init_failed", "hint">>
    /\ exitCode' = 1
    /\ outcome' = "startup_failed"
    /\ pc' = "done"

\* _get_tools: None becomes the empty list
GetTools(r) == IF r.kind = "list" THEN r.tools ELSE <<>>

\* CSVStrandsAgent.initialize on an object whose handle is a and model id mid:
\* r is what discovery does, built whether Model and Agent construct.  Gives
\* the handle afterwards, the tools listed, the lines printed and whether the
\* call raised
initialize(a, mid, r, built) ==
    IF r.kind = "error"
    THEN [agent |-> a, tools |-> <<>>, raised |-> TRUE,
          printed |-> <<"connecting", "discovering", "init_error">>]
    ELSE IF GetTools(r) = <<>>
    THEN [agent |-> a, tools |-> <<>>, raised |-> FALSE,
          printed |-> <<"connecting", "discovering", "no_tools">>]
    ELSE IF built
    THEN [agent |-> [name |-> "CSV Processor Agent", model |-> mid,
                     tools |-> GetTools(r), instructions |-> SystemPrompt],
          tools |-> GetTools(r), raised |-> FALSE,
          printed |-> <<"connecting", "discovering", "found">>
                          \o [i \in 1..Len(GetTools(r)) |-> "tool"]
                          \o <<"agent_ok">>]
    ELSE [agent |-> a, tools |-> GetTools(r), raised |-> TRUE,
          printed |-> <<"connecting", "discovering", "found">>
                          \o [i \in 1..Len(GetTools(r)) |-> "tool"]
                          \o <<"init_error">>]

\* await agent.initialize() in main: a raise reaches the outer except
Initialize ==
    /\ pc = "initialize"
    /\ mcp_client' = [url |-> mcp_url, headers |-> [XAPIKey |-> api_key]]
    /\ \E r \in DiscoveryResults, built \in BOOLEAN :
        \E i \in {initialize(agent, model_id, r, built)} :
            /\ agent' = i.agent
            /\ tools' = i.tools
            /\ IF i.raised
               THEN StartupFailed(i.printed)
               ELSE /\ console' = console \o i.printed
                    /\ pc' = "example"
                    /\ UNCHANGED <<outcome, exitCode>>
    /\ UNCHANGED <<env, mcp_url, api_key, model_id, line, user_input, prompt,
                   route, requests, turns, reads, failed>>

\* the example: result = await agent.list_jobs(), up to the await
ExampleListJobs ==
    /\ pc = "example"
    /\ LET o == list_jobs(agent) IN
        IF o.kind = "run"
        THEN /\ requests' = requests + 1
             /\ prompt' = o.text
             /\ console' = console \o <<"example", "progress">>
             /\ pc' = "example_run"
             /\ UNCHANGED <<outcome, exitCode>>
        ELSE /\ StartupFailed(<<"example">>)
             /\ UNCHANGED <<requests, prompt>>
    /\ UNCHANGED <<env, mcp_url, api_key, model_id, mcp_client, agent, tools,
                   line, user_input, route, turns, reads, failed>>

\* the example's agent.run returns: the result and the command list are printed
ExampleReturn ==
    /\ pc = "example_run"
    /\ console' = console \o <<"response", "commands">>
    /\ outcome' = "returned"
    /\ pc' = "ready"
    /\ UNCHANGED <<env, mcp_url, api_key, model_id, mcp_client, agent, tools,
                   line, user_input, prompt, route, requests, turns, reads, exitCode, failed>>

\* the example's agent.run raises: caught by the outer except Exception
ExampleRaise ==
    /\ pc = "example_run"
    /\ StartupFailed(<<>>)
    /\ failed' = failed + 1
    /\ UNCHANGED <<env, mcp_url, api_key, model_id, mcp_client, agent, tools,
                   line, user_input, prompt, route, requests, turns, reads>>

\* KeyboardInterrupt outside the loop's try: it is no Exception, so line 322
\* does not catch it and the interpreter ends on the uncaught interrupt
InterruptStartup ==
    /\ pc \in {"initialize", "example", "example_run"}
    /\ exitCode' = 130
    /\ outcome' = "interrupted"
    /\ pc' = "done"
    /\ UNCHANGED <<env, mcp_url, api_key, model_id, mcp_client, agent, tools,
                   line, user_input, prompt, route, requests, turns, reads, console, failed>>

\* one pass of the loop body on the line l, up to the await of agent.run
ReadLine(l) ==
    /\ pc = "ready"
    /\ reads < MaxReads
    /\ reads' = reads + 1
    /\ line' = l
    /\ user_input' = Strip(l)
    /\ \E o \in {Dispatch(agent, Strip(l))} :
        /\ route' = o.via
        /\ turns' = IF o.kind \in {"skip", "exit"} THEN turns ELSE turns + 1
        /\ CASE o.kind = "skip" ->
                /\ console' = <<>>
                /\ outcome' = "skip"
                /\ UNCHANGED <<pc, prompt, requests, exitCode>>
             [] o.kind = "exit" ->
                /\ console' = <<"goodbye">>
                /\ outcome' = "exit"
                /\ exitCode' = 0
                /\ pc' = "done"
                /\ UNCHANGED <<prompt, requests>>
             [] o.kind = "run" ->
                /\ requests' = requests + 1
                /\ prompt' = o.text
                /\ console' = IF o.via = "passthrough" THEN <<>> ELSE <<"progress">>
                /\ outcome' = "forwarded"
                /\ pc' = "turn"
                /\ UNCHANGED exitCode
             [] o.kind = "raise" ->
                /\ console' = <<"error">>
                /\ outcome' = "raised_not_initialized"
                /\ UNCHANGED <<pc, prompt, requests, exitCode>>
             [] o.kind = "not_initialized" ->
                /\ console' = <<"not_initialized">>
                /\ outcome' = "not_initialized"
                /\ UNCHANGED <<pc, prompt, requests, exitCode>>
    /\ UNCHANGED <<env, mcp_url, api_key, model_id, mcp_client, agent, tools, failed>>

\* input() raises EOFError: an Exception, caught at line 319
ReadEOF ==
    /\ pc = "ready"
    /\ reads < MaxReads
    /\ reads' = reads + 1
    /\ console' = <<"error">>
    /\ outcome' = "eof"
    /\ UNCHANGED <<env, pc, mcp_url, api_key, model_id, mcp_client, agent, tools,
                   line, user_input, prompt, route, requests, turns, exitCode, failed>>

\* a slip: the result is not printed
TurnReturnSilent ==
    /\ pc = "turn"
    /\ outcome' = "returned"
    /\ pc' = "ready"
    /\ UNCHANGED <<env, mcp_url, api_key, model_id, mcp_client, agent, tools,
                   line, user_input, prompt, route, requests, turns, reads,
                   console, exitCode, failed>>

\* agent.run returns: print(result)
TurnReturn ==
    /\ pc = "turn"
    /\ console' = console \o <<"response">>
    /\ outcome' = "returned"
    /\ pc' = "ready"
    /\ UNCHANGED <<env, mcp_url, api_key, model_id, mcp_client, agent, tools,
                   line, user_input, prompt, route, requests, turns, reads, exitCode, failed>>

\* a slip: the error ends the loop
TurnRaiseEndsLoop ==
    /\ pc = "turn"
    /\ console' = console \o <<"error">>
    /\ outcome' = "raised"
    /\ exitCode' = 1
    /\ pc' = "done"
    /\ failed' = failed + 1
    /\ UNCHANGED <<env, mcp_url, api_key, model_id, mcp_client, agent, tools,
                   line, user_input, prompt, route, requests, turns, reads>>

\* agent.run raises an Exception: caught at line 319, the loop goes on
TurnRaise ==
    /\ pc = "turn"
    /\ console' = console \o <<"error">>
    /\ outcome' = "raised"
    /\ pc' = "ready"
    /\ failed' = failed + 1
    /\ UNCHANGED <<env, mcp_url, api_key, model_id, mcp_client, agent, tools,
                   line, user_input, prompt, route, requests, turns, reads, exitCode>>

\* KeyboardInterrupt inside the loop's try, at input() or during a turn:
\* caught at line 316, the loop is left and main returns
InterruptLoop ==
    /\ pc \in {"ready", "turn"}
    /\ console' = console \o <<"interrupted">>
    /\ outcome' = "interrupted"
    /\ exitCode' = 0
    /\ pc' = "done"
    /\ UNCHANGED <<env, mcp_url, api_key, model_id, mcp_client, agent, tools,
                   line, user_input, prompt, route, requests, turns, reads, failed>>

Next ==
    \/ LoadConfig
    \/ Initialize
    \/ ExampleListJobs
    \/ ExampleReturn
    \/ ExampleRaise
    \/ InterruptStartup
    \/ \E l \in Lines : ReadLine(l)
    \/ ReadEOF
    \/ TurnReturn
    \/ TurnRaise
    \/ InterruptLoop

Spec == Init /\ [][Next]_vars

----------------------------------------------------------------------------
(* The class and the loop body used directly: any operation applied to a   *)
(* CSVStrandsAgent at any time after construction, initialized or not      *)

Files == {"data.csv"}
Tables == {NoText, "sales"}
Ids == {"job-42"}

\* lines handed to the loop body, one for each of its branches
OpLines == {"", " \t", "eXit", "List", "STATUS Job-42", "query Job-42",
            "Analyze  query t", "status ", "show me the sales table"}

\* the calls a user of the object can make
Calls ==
    {[method |-> "process_csv", file |-> f, table |-> t, exists |-> x] :
        f \in Files, t \in Tables, x \in BOOLEAN}
    \cup {[method |-> "query_table", table |-> t] : t \in Tables \ {NoText}}
    \cup {[method |-> "get_job_status", id |-> j] : j \in Ids}
    \cup {[method |-> "list_jobs"]}
    \cup {[method |-> "analyze_data", table |-> t] : t \in Tables \ {NoText}}
    \cup {[method |-> "cleanup_job", id |-> j] : j \in Ids}
    \cup {[method |-> "loop_body", line |-> l] : l \in OpLines}

\* the call c made on an object whose handle is a
Invoke(a, c) ==
    CASE c.method = "process_csv" ->
            Via("process_csv", process_csv(a, c.file, c.table, c.exists))
      [] c.method = "query_table" -> Via("query_table", query_table(a, c.table))
      [] c.method = "get_job_status" -> Via("get_job_status", get_job_status(a, c.id))
      [] c.method = "list_jobs" -> Via("list_jobs", list_jobs(a))
      [] c.method = "analyze_data" -> Via("analyze_data", analyze_data(a, c.table))
      [] c.method = "cleanup_job" -> Via("cleanup_job", cleanup_job(a, c.id))
      [] c.method = "loop_body" -> Dispatch(a, Strip(c.line))

InitOps ==
    /\ env = [n \in EnvNames |-> Unset]
    /\ pc = "api"
    /\ mcp_url = DefaultUrl /\ api_key = DefaultKey
    /\ model_id \in {DefaultModelId, EnvSetting["MODEL_ID"]}
    /\ mcp_client = None /\ agent = None /\ tools = <<>>
    /\ line = NoText /\ user_input = NoText /\ prompt = NoText /\ route = "none"
    /\ requests = 0 /\ turns = 0 /\ reads = 0 /\ failed = 0
    /\ console = <<>> /\ outcome = "none" /\ exitCode = -1

\* initialize() called by the user, who sees its exception
OpInitialize ==
    /\ pc = "api"
    /\ mcp_client' = [url |-> mcp_url, headers |-> [XAPIKey |-> api_key]]
    /\ \E r \in DiscoveryResults, built \in BOOLEAN :
        \E i \in {initialize(agent, model_id, r, built)} :
            /\ agent' = i.agent
            /\ tools' = i.tools
            /\ console' = i.printed
            /\ outcome' = IF i.raised THEN "initialize_raised" ELSE "initialized"
    /\ UNCHANGED <<env, pc, mcp_url, api_key, model_id, line, user_input, prompt,
                   route, requests, turns, reads, exitCode, failed>>

\* one call, up to its await of agent.run if it gets there
OpCall(c) ==
    /\ pc = "api"
    /\ turns < MaxCalls
    /\ turns' = turns + 1
    /\ \E o \in {Invoke(agent, c)} :
        /\ route' = o.via
        /\ CASE o.kind = "run" ->
                /\ requests' = requests + 1
                /\ prompt' = o.text
                /\ console' = IF o.via = "passthrough" THEN <<>> ELSE <<"progress">>
                /\ outcome' = "forwarded"
                /\ pc' = "api_run"
             [] o.kind = "raise" ->
                /\ console' = <<>>
                /\ outcome' = "raised_not_initialized"
                /\ UNCHANGED <<pc, prompt, requests>>
             [] o.kind = "return" ->
                /\ console' = <<>>
                /\ outcome' = "file_not_found"
                /\ UNCHANGED <<pc, prompt, requests>>
             [] o.kind = "not_initialized" ->
                /\ console' = <<"not_initialized">>
                /\ outcome' = "not_initialized"
                /\ UNCHANGED <<pc, prompt, requests>>
             [] o.kind \in {"skip", "exit"} ->
                /\ console' = IF o.kind = "exit" THEN <<"goodbye">> ELSE <<>>
                /\ outcome' = o.kind
                /\ UNCHANGED <<pc, prompt, requests>>
    /\ line' = IF c.method = "loop_body" THEN c.line ELSE line
    /\ user_input' = IF c.method = "loop_body" THEN Strip(c.line) ELSE user_input
    /\ UNCHANGED <<env, mcp_url, api_key, model_id, mcp_client, agent, tools,
                   reads, exitCode, failed>>

\* agent.run returns or raises to the caller
OpFinish ==
    /\ pc = "api_run"
    /\ \E r \in {"returned", "raised"} :
        /\ outcome' = r
        /\ failed' = IF r = "raised" THEN failed + 1 ELSE failed
    /\ pc' = "api"
    /\ UNCHANGED <<env, mcp_url, api_key, model_id, mcp_client, agent, tools,
                   line, user_input, prompt, route, requests, turns, reads,
                   console, exitCode>>

NextOps ==
    \/ OpInitialize
    \/ \E c \in Calls : OpCall(c)
    \/ OpFinish

SpecOps == InitOps /\ [][NextOps]_vars

----------------------------------------------------------------------------
(* Properties *)

HasPrinted(k) == \E i \in 1..Len(console) : console[i] = k

\* response and error lines among the lines printed since the last input()
AnswerCount == Cardinality({i \in 1..Len(console) : console[i] \in {"response", "error"}})

\* a step of the loop in which input() returned a line
ReadStep == pc = "ready" /\ reads' = reads + 1 /\ outcome' # "eof"

KindOf ==
    [p \in Prefixes |->
        CASE p \in {"status", "STATUS"} -> "status"
          [] p \in {"query", "qUeRy"} -> "query"
          [] p \in {"analyze", "Analyze"} -> "analyze"]

Template(kind, arg) ==
    CASE kind = "status" -> StatusPrompt(arg)
      [] kind = "query" -> QueryPrompt(arg, "100")
      [] kind = "analyze" -> AnalyzePrompt(arg)

\* lines "P <arg>" with a non-empty argument, whitespace around the line and
\* around the argument
PrefixedForms ==
    {[text |-> w1 \o p \o " " \o w2 \o a \o w3, kind |-> KindOf[p], arg |-> a] :
        w1 \in {"", " "}, p \in Prefixes, w2 \in {"", " "}, a \in Args,
        w3 \in {"", " \t"}}

PrefixedLines == {f.text : f \in PrefixedForms}

FormOf(l) == CHOOSE f \in PrefixedForms : f.text = l

\* lines made of P, a space and nothing but whitespace
EmptyArgForms ==
    {[text |-> w1 \o p \o " " \o w3, word |-> p, kind |-> KindOf[p]] :
        w1 \in {"", " "}, p \in Prefixes, w3 \in {"", " ", "  \t"}}

EmptyArgLines == {f.text : f \in EmptyArgForms}

EmptyArgFormOf(l) == CHOOSE f \in EmptyArgForms : f.text = l

ExitLines == {w1 \o e \o w3 : w1 \in {"", " "}, e \in {"exit", "EXIT", "eXit"},
                              w3 \in {"", " \t"}}

BlankLines == {"", " ", "  \t", "\t"}

\* the handle initialize builds, as it is when nothing has damaged it
IntactAgent ==
    [name |-> "CSV Processor Agent", model |-> model_id, tools |-> tools,
     instructions |-> SystemPrompt]

\* C1: in READY, a line "P <arg>" with P one of status, query, analyze in any
\* casing and <arg> non-empty forwards exactly one instruction, P's own
\* template with the trimmed argument, through P's branch and no other.
C1_PrefixTemplate ==
    [][(ReadStep /\ line' \in PrefixedLines) =>
        \E f \in {FormOf(line')} :
            /\ requests' = requests + 1
            /\ pc' = "turn"
            /\ route' = f.kind
            /\ prompt' = Template(f.kind, f.arg)]_vars

C1_Witness ==
    /\ pc = "turn"
    /\ line = " STATUS  Job-42 \t"
    /\ route = "status"
    /\ prompt = "Check the status of CSV processing job Job-42 and provide details."

\* C2 (the claim as stated): once discovery has returned no tools, the
\* process does not end with failure status.
C2_EmptyToolsNotFatal == HasPrinted("no_tools") => exitCode # 1

\* C3: a turn whose instruction raises prints exactly one error line and
\* leaves the loop READY with the process running and the handle untouched;
\* the line read after a failed turn, however many turns failed before it, is
\* dispatched as it is on the intact handle.
C3_ErrorKeepsReady ==
    [][/\ (pc = "turn" /\ outcome' = "raised") =>
            /\ pc' = "ready"
            /\ exitCode' = -1
            /\ console' = console \o <<"error">>
            /\ AnswerCount' = 1
            /\ agent' = agent
            /\ requests' = requests
       /\ (ReadStep /\ outcome = "raised") =>
            \E o \in {Dispatch(IntactAgent, Strip(line'))} :
                /\ route' = o.via
                /\ o.kind \in {"skip", "exit", "run"}
                /\ o.kind = "run" =>
                    prompt' = o.text /\ requests' = requests + 1 /\ pc' = "turn"
                /\ o.kind = "skip" => requests' = requests /\ pc' = "ready"
                /\ o.kind = "exit" => requests' = requests /\ pc' = "done"]_vars

\* two turns failed one after the other and the third line is in its turn
C3_Witness ==
    /\ pc = "turn"
    /\ turns = 3
    /\ failed = 2
    /\ route = "query"
    /\ prompt = QueryPrompt("Job-42", "100")

\* C4: in READY, a line that is "exit" once trimmed and case-folded prints
\* the farewell, forwards nothing and ends the loop; after the end no line is
\* read and nothing is forwarded.
C4_ExitTerminates ==
    [][/\ (ReadStep /\ line' \in ExitLines) =>
            /\ pc' = "done"
            /\ console' = <<"goodbye">>
            /\ requests' = requests
            /\ exitCode' = 0
       /\ pc = "done" => (pc' = "done" /\ reads' = reads /\ requests' = requests)]_vars

C4_Witness ==
    /\ pc = "done"
    /\ line = " EXIT \t"
    /\ outcome = "exit"
    /\ console = <<"goodbye">>

\* C5: while the handle is absent no call forwards an instruction: each of
\* the six methods and the free-form branch of the loop body ends in the
\* "agent not initialized" failure.
C5_NoForwardWithoutAgent ==
    [][/\ pc' = "api_run" => agent' # None
       /\ (agent = None /\ pc = "api" /\ turns' = turns + 1) =>
            /\ requests' = requests
            /\ pc' = "api"
            /\ route' \notin {"empty", "exit"} =>
                outcome' \in {"raised_not_initialized", "not_initialized"}]_vars

C5_Witness ==
    /\ agent = None
    /\ turns >= 2
    /\ requests = 0
    /\ route = "passthrough"
    /\ outcome = "not_initialized"

\* C6: in READY, an empty or whitespace-only line forwards nothing, prints
\* nothing and leaves the loop READY.
C6_BlankLineNoOp ==
    [][(ReadStep /\ line' \in BlankLines) =>
        /\ requests' = requests
        /\ turns' = turns
        /\ console' = <<>>
        /\ pc' = "ready"
        /\ exitCode' = exitCode
        /\ prompt' = prompt
        /\ agent' = agent]_vars

C6_Witness ==
    /\ pc = "ready"
    /\ line = "  \t"
    /\ outcome = "skip"
    /\ reads = 2
    /\ requests = 1

\* C7 (the claim as stated): the process ends with non-zero status exactly
\* when discovery or agent assembly failed; the exit command and an
\* interrupt end it with status 0.
C7_ExitStatus ==
    pc = "done" =>
        /\ (exitCode # 0) <=> HasPrinted("init_error")
        /\ outcome \in {"exit", "interrupted"} => exitCode = 0

\* C8 (the claim as stated): url, credential and model identifier each equal
\* the environment variable when set and the default otherwise.
C8_ConfigFromEnv ==
    /\ mcp_client # None =>
        /\ mcp_client.url =
            IF env["MCP_SERVER_URL"] = Unset THEN DefaultUrl ELSE env["MCP_SERVER_URL"]
        /\ mcp_client.headers.XAPIKey =
            IF env["API_KEY"] = Unset THEN DefaultKey ELSE env["API_KEY"]
    /\ agent # None =>
        agent.model = IF env["MODEL_ID"] = Unset THEN DefaultModelId ELSE env["MODEL_ID"]

\* C9 (the claim as stated): a line made of P, a space and an empty or
\* whitespace-only argument goes through P's template with the empty argument.
C9_Original ==
    [][(ReadStep /\ line' \in EmptyArgLines) =>
        \E f \in {EmptyArgFormOf(line')} :
            /\ route' = f.kind
            /\ prompt' = Template(f.kind, "")]_vars

\* C9 (amended): such a line is trimmed to the bare word P, matches no
\* prefix, and is forwarded as typed through the free-form branch.
C9_BareWordPassthrough ==
    [][(ReadStep /\ line' \in EmptyArgLines) =>
        \E f \in {EmptyArgFormOf(line')} :
            /\ user_input' = f.word
            /\ route' = "passthrough"
            /\ prompt' = f.word
            /\ requests' = requests + 1
            /\ pc' = "turn"]_vars

C9_Witness ==
    /\ pc = "turn"
    /\ line = "STATUS "
    /\ route = "passthrough"
    /\ prompt = "STATUS"

\* C10 (the claim as stated): the requests sent are as many as the
\* non-empty, non-exit lines read, and none is sent before the first read.
C10_Original == requests = turns /\ (reads = 0 => requests = 0)

\* C10 (amended): one request, the example list_jobs, is sent at startup
\* before any line is read; from then on the requests sent are one more than
\* the non-empty, non-exit lines read, and each request of the loop is
\* followed by exactly one response or error line before the next read.
C10_RequestsCounted ==
    /\ pc \in {"main", "initialize", "example"} => requests = 0 /\ reads = 0
    /\ pc = "example_run" => requests = 1 /\ reads = 0
    /\ pc \in {"ready", "turn"} => requests = 1 + turns
    /\ pc = "done" => requests = 1 + turns \/ (requests = 0 /\ reads = 0)
    /\ pc = "turn" => AnswerCount = 0
    /\ (pc = "ready" /\ outcome \in {"returned", "raised"}) => AnswerCount = 1

C10_Witness ==
    /\ pc = "ready"
    /\ turns = 2
    /\ requests = 3
    /\ outcome = "returned"
    /\ console = <<"progress", "response">>

====
